---- MODULE Spec2Model ----
(***************************************************************************)
(* Model of scripts/run_by_epoch.py: the per-epoch driver that detects     *)
(* ripples, loads the LFPs and fans the epoch out over the multitaper      *)
(* parameter catalog and the ripple covariates.                            *)
(*                                                                         *)
(* The functions imported from src.analysis and src.data_processing are    *)
(* opaque synchronous calls: each one either returns a value or raises.    *)
(* Every call the driver makes is recorded, with its arguments, its        *)
(* outcome and its return value, in the sequence `calls`.                  *)
(*                                                                         *)
(* Times are written in milliseconds (the source has seconds as floats):   *)
(* 0.020 s is 20, -0.420 s is -420.                                        *)
(***************************************************************************)
EXTENDS Integers, Sequences, FiniteSets, TLC

(***************************************************************************)
(* Bounds of the model.                                                    *)
(***************************************************************************)
\* the Day argument ranges over 1..MaxDay
MaxDay == 1
\* the Epoch argument ranges over 1..MaxEpoch
MaxEpoch == 1
\* a collaborator returns one of MaxId distinguishable values
MaxId == 2

(***************************************************************************)
(* Module-level data of run_by_epoch.py                                    *)
(***************************************************************************)
sampling_frequency == 1500

animals ==
    [n \in {"HPa", "HPb", "HPc"} |->
        [directory |-> IF n = "HPa" THEN "HPa_direct"
                       ELSE IF n = "HPb" THEN "HPb_direct" ELSE "HPc_direct",
         short_name |-> n]]

ripple_frequency ==
    [sampling_frequency |-> sampling_frequency,
     time_window_duration |-> 20,
     time_window_step |-> 20,
     desired_frequencies |-> <<100, 300>>,
     time_halfbandwidth_product |-> 1,
     window_of_interest |-> <<-420, 400>>]

gamma_frequency_highTimeRes ==
    [sampling_frequency |-> sampling_frequency,
     time_window_duration |-> 50,
     time_window_step |-> 50,
     desired_frequencies |-> <<12, 125>>,
     time_halfbandwidth_product |-> 1,
     window_of_interest |-> <<-450, 400>>]

gamma_frequency_medFreqRes1 ==
    [sampling_frequency |-> sampling_frequency,
     time_window_duration |-> 100,
     time_window_step |-> 100,
     desired_frequencies |-> <<12, 125>>,
     time_halfbandwidth_product |-> 1,
     window_of_interest |-> <<-500, 400>>]

gamma_frequency_medFreqRes2 ==
    [sampling_frequency |-> sampling_frequency,
     time_window_duration |-> 200,
     time_window_step |-> 200,
     desired_frequencies |-> <<12, 125>>,
     time_halfbandwidth_product |-> 1,
     window_of_interest |-> <<-600, 400>>]

gamma_frequency_highFreqRes ==
    [sampling_frequency |-> sampling_frequency,
     time_window_duration |-> 400,
     time_window_step |-> 400,
     desired_frequencies |-> <<12, 125>>,
     time_halfbandwidth_product |-> 1,
     window_of_interest |-> <<-800, 400>>]

low_frequency_highTimeRes ==
    [sampling_frequency |-> sampling_frequency,
     time_window_duration |-> 100,
     time_window_step |-> 100,
     desired_frequencies |-> <<0, 30>>,
     time_halfbandwidth_product |-> 1,
     window_of_interest |-> <<-500, 400>>]

low_frequency_medFreqRes ==
    [sampling_frequency |-> sampling_frequency,
     time_window_duration |-> 250,
     time_window_step |-> 250,
     desired_frequencies |-> <<0, 30>>,
     time_halfbandwidth_product |-> 1,
     window_of_interest |-> <<-750, 250>>]

low_frequency_highFreqRes ==
    [sampling_frequency |-> sampling_frequency,
     time_window_duration |-> 500,
     time_window_step |-> 500,
     desired_frequencies |-> <<0, 30>>,
     time_halfbandwidth_product |-> 1,
     window_of_interest |-> <<-1000, 500>>]

(***************************************************************************)
(* A Python dict is an insertion-ordered mapping: a sequence of            *)
(* [key, value] entries with pairwise distinct keys.  DictLiteral builds   *)
(* the dict a {k1: v1, k2: v2, ...} display evaluates to: a key that is    *)
(* repeated keeps its first position and takes the last value.             *)
(***************************************************************************)
Keys(d) == {d[j].key : j \in 1..Len(d)}

SetItem(d, k, v) ==
    IF k \in Keys(d)
    THEN [j \in 1..Len(d) |-> IF d[j].key = k THEN [key |-> k, value |-> v]
                                               ELSE d[j]]
    ELSE Append(d, [key |-> k, value |-> v])

RECURSIVE DictLiteral(_)
DictLiteral(pairs) ==
    IF pairs = <<>> THEN <<>>
    ELSE LET n == Len(pairs)
         IN  SetItem(DictLiteral(SubSeq(pairs, 1, n - 1)),
                     pairs[n][1], pairs[n][2])

\* A catalog display in which one name is typed twice: the second value
\* replaces the first and the dict has one entry less.
multitaper_parameters_DuplicateKey ==
    DictLiteral(<<
        <<"gamma_frequency_medFreqRes1", gamma_frequency_medFreqRes1>>,
        <<"gamma_frequency_medFreqRes1", gamma_frequency_medFreqRes2>>,
        <<"gamma_frequency_highTimeRes", gamma_frequency_highTimeRes>>,
        <<"gamma_frequency_highFreqRes", gamma_frequency_highFreqRes>>,
        <<"low_frequencies_highTimeRes", low_frequency_highTimeRes>>,
        <<"low_frequencies_medFreqRes", low_frequency_medFreqRes>>,
        <<"low_frequencies_highFreqRes", low_frequency_highFreqRes>>,
        <<"ripple_frequencies", ripple_frequency>> >>)

multitaper_parameters ==
    DictLiteral(<<
        <<"gamma_frequency_medFreqRes1", gamma_frequency_medFreqRes1>>,
        <<"gamma_frequency_medFreqRes2", gamma_frequency_medFreqRes2>>,
        <<"gamma_frequency_highTimeRes", gamma_frequency_highTimeRes>>,
        <<"gamma_frequency_highFreqRes", gamma_frequency_highFreqRes>>,
        <<"low_frequencies_highTimeRes", low_frequency_highTimeRes>>,
        <<"low_frequencies_medFreqRes", low_frequency_medFreqRes>>,
        <<"low_frequencies_highFreqRes", low_frequency_highFreqRes>>,
        <<"ripple_frequencies", ripple_frequency>> >>)

ripple_covariates == <<"session_time", "ripple_trajectory", "ripple_direction">>

(***************************************************************************)
(* dict.items(): the entries in insertion order, whatever the process's    *)
(* string hash seed is.                                                    *)
(***************************************************************************)
\* Iteration in hash order: the order depends on the process's hash seed.
items_HashOrder(d, seed) ==
    [j \in 1..Len(d) |-> d[((j - 1 + seed) % Len(d)) + 1]]

items(d, seed) == d

(***************************************************************************)
(* Values exchanged with the collaborators.  A value is tagged with what   *)
(* it is, so that passing one value where another belongs is visible.      *)
(***************************************************************************)
Value(kind, id) == [kind |-> kind, id |-> id]
None == Value("None", 0)
Ids == 1..MaxId

SIGNALS == {"SIGUSR1", "SIGUSR2"}

NoError == [raised_by |-> "", kind |-> ""]

VARIABLES
    pc,             \* position of the main thread
    epoch_index,    \* (args.Animal, args.Day, args.Epoch)
    catalog,        \* the module global multitaper_parameters
    hashseed,       \* string hash seed of this process
    handlers,       \* TRUE once _signal_handler is installed for both signals
    pending,        \* signal delivered and not yet handled, or "none"
    i,              \* position of the loop over multitaper_parameters.items()
    c,              \* position of the loop over ripple_covariates
    ripple_times, lfps, tetrode_info, ripple_info,   \* locals
    calls,          \* collaborator calls made by this process, in order
    logs,           \* lines written by the logger
    store,          \* what the persistence layer holds
    error,          \* the exception that ended the process, if any
    status,         \* exit status, -1 while the process runs
    run,            \* 1 for the first process, 2 for a repeated invocation
    prev            \* calls of the first process, once it has ended

vars == <<pc, epoch_index, catalog, hashseed, handlers, pending, i, c,
          ripple_times, lfps, tetrode_info, ripple_info,
          calls, logs, store, error, status, run, prev>>

locals == <<ripple_times, lfps, tetrode_info, ripple_info>>
globals == <<epoch_index, catalog, hashseed, run, prev>>

Terminal == {"done", "failed", "exited", "killed"}

(***************************************************************************)
(* Epoch Resolver: lookup of the animal short name in the registry,        *)
(* performed by the first collaborator that needs the data location.       *)
(***************************************************************************)
resolve(e, registry) ==
    IF e[1] \in DOMAIN registry THEN registry[e[1]].directory
    ELSE "UnknownAnimalError"

(***************************************************************************)
(* Persistence layer: one artifact per (file, epoch, name) key; saving     *)
(* under an existing key overwrites.                                       *)
(***************************************************************************)
Save(s, file, e, name, data) ==
    {a \in s : ~(a.file = file /\ a.epoch_index = e /\ a.name = name)}
        \cup {[file |-> file, epoch_index |-> e, name |-> name, data |-> data]}

(***************************************************************************)
(* Behaviour of a collaborator at the k-th call of a process: it returns   *)
(* one of `rets` or raises.  A repeated invocation (run = 2) meets the     *)
(* same collaborator behaviour as the first one did.                       *)
(***************************************************************************)
Behaviour(k, rets) ==
    IF run = 2 /\ k <= Len(prev)
    THEN {[ok |-> prev[k].ok, ret |-> prev[k].ret]}
    ELSE {[ok |-> TRUE, ret |-> r] : r \in rets}
            \cup {[ok |-> FALSE, ret |-> <<>>]}

Raises(k) == {b \in Behaviour(k, {<<>>}) : ~b.ok}

Call(fn, args, b) == [fn |-> fn, args |-> args, ok |-> b.ok, ret |-> b.ret]

(***************************************************************************)
(* An exception is caught nowhere: it unwinds estimate_ripple_coherence    *)
(* and main, and the interpreter exits with status 1.                      *)
(***************************************************************************)
\* The exception is swallowed and the driver carries on.
After_Swallowed(ok, nxt) == nxt

After(ok, nxt) == IF ok THEN nxt ELSE "failed"

Propagate(b, fn, kind) ==
    /\ error' = IF b.ok THEN error ELSE [raised_by |-> fn, kind |-> kind]
    /\ status' = IF b.ok THEN status ELSE 1

Running(at) == pc = at /\ pending = "none"

Init ==
    /\ pc = "main"
    /\ epoch_index \in (DOMAIN animals \cup {"XYZ"}) \X (1..MaxDay) \X (1..MaxEpoch)
    /\ catalog = multitaper_parameters
    /\ hashseed = 0
    /\ handlers = FALSE
    /\ pending = "none"
    /\ i = 0 /\ c = 0
    /\ ripple_times = None /\ lfps = None
    /\ tetrode_info = None /\ ripple_info = None
    /\ calls = <<>> /\ logs = <<>> /\ store = {}
    /\ error = NoError /\ status = -1
    /\ run = 1 /\ prev = <<>>

(***************************************************************************)
(* main                                                                    *)
(***************************************************************************)
InstallSignalHandlers ==
    /\ Running("main")
    /\ handlers' = TRUE
    /\ pc' = "announce"
    /\ UNCHANGED <<globals, pending, i, c, locals, calls, logs, store,
                   error, status>>

Announce ==
    /\ Running("announce")
    /\ logs' = logs \o <<[level |-> "INFO", msg |-> "Processing epoch",
                          epoch_index |-> epoch_index],
                         [level |-> "INFO", msg |-> "Git Hash"]>>
    /\ pc' = "detect_epoch_ripples"
    /\ UNCHANGED <<globals, handlers, pending, i, c, locals, calls, store,
                   error, status>>

(***************************************************************************)
(* estimate_ripple_coherence                                               *)
(***************************************************************************)
DetectEpochRipples ==
    /\ Running("detect_epoch_ripples")
    /\ \E b \in IF resolve(epoch_index, animals) = "UnknownAnimalError"
                THEN Raises(Len(calls) + 1)
                ELSE Behaviour(Len(calls) + 1,
                               {<<Value("ripple_times", v)>> : v \in Ids}) :
        /\ calls' = Append(calls,
               Call("detect_epoch_ripples",
                    [epoch_index |-> epoch_index, animals |-> animals,
                     sampling_frequency |-> sampling_frequency], b))
        /\ ripple_times' = IF b.ok THEN b.ret[1] ELSE ripple_times
        /\ pc' = After(b.ok, "get_epoch_lfps")
        /\ Propagate(b, "detect_epoch_ripples",
                     IF resolve(epoch_index, animals) = "UnknownAnimalError"
                     THEN "UnknownAnimalError" ELSE "Error")
    /\ UNCHANGED <<globals, handlers, pending, i, c, lfps, tetrode_info,
                   ripple_info, logs, store>>

GetEpochLfps ==
    /\ Running("get_epoch_lfps")
    /\ \E b \in Behaviour(Len(calls) + 1,
                    {<<Value("lfps", v), Value("tetrode_info", v)>> : v \in Ids}) :
        /\ calls' = Append(calls,
               Call("get_epoch_lfps",
                    [epoch_index |-> epoch_index, animals |-> animals], b))
        /\ lfps' = IF b.ok THEN b.ret[1] ELSE lfps
        /\ tetrode_info' = IF b.ok THEN b.ret[2] ELSE tetrode_info
        /\ pc' = After(b.ok, "save_tetrode_pair_info")
        /\ Propagate(b, "get_epoch_lfps", "Error")
    /\ UNCHANGED <<globals, handlers, pending, i, c, ripple_times,
                   ripple_info, logs, store>>

\* Where the loop over the catalog goes from position j: into the body
\* for the next entry, or past the loop.
\* The loop leaves out the last catalog entry.
FirstLoopFrom_SkipsLast(j) ==
    IF j < Len(items(catalog, hashseed))
    THEN [pc |-> "ripple_triggered_coherence", i |-> j]
    ELSE [pc |-> "decode_ripple_clusterless", i |-> 0]

FirstLoopFrom(j) ==
    IF j <= Len(items(catalog, hashseed))
    THEN [pc |-> "ripple_triggered_coherence", i |-> j]
    ELSE [pc |-> "decode_ripple_clusterless", i |-> 0]

\* The driver goes on to the first loop without saving the tetrode info.
SaveTetrodePairInfo_Skipped ==
    /\ Running("save_tetrode_pair_info")
    /\ pc' = FirstLoopFrom(1).pc
    /\ i' = FirstLoopFrom(1).i
    /\ UNCHANGED <<globals, handlers, pending, c, locals, calls, logs, store,
                   error, status>>

SaveTetrodePairInfo ==
    /\ Running("save_tetrode_pair_info")
    /\ \E b \in Behaviour(Len(calls) + 1, {<<>>}) :
        /\ calls' = Append(calls,
               Call("save_tetrode_pair_info",
                    [epoch_index |-> epoch_index,
                     tetrode_info |-> tetrode_info], b))
        /\ store' = IF b.ok
                    THEN Save(store, "tetrode_pair_info", epoch_index, "",
                              tetrode_info)
                    ELSE store
        /\ pc' = After(b.ok, FirstLoopFrom(1).pc)
        /\ i' = IF b.ok THEN FirstLoopFrom(1).i ELSE i
        /\ Propagate(b, "save_tetrode_pair_info", "Error")
    /\ UNCHANGED <<globals, handlers, pending, c, locals, logs>>

\* The (parameters_name, parameters) pair of the current loop iteration.
Entry == items(catalog, hashseed)[i]

RippleTriggeredCoherence ==
    /\ Running("ripple_triggered_coherence")
    /\ \E b \in Behaviour(Len(calls) + 1, {<<>>}) :
        /\ calls' = Append(calls,
               Call("ripple_triggered_coherence",
                    [lfps |-> lfps, ripple_times |-> ripple_times,
                     multitaper_parameter_name |-> Entry.key,
                     multitaper_params |-> Entry.value], b))
        /\ pc' = After(b.ok, "ripple_triggered_canonical_coherence")
        /\ Propagate(b, "ripple_triggered_coherence", "Error")
    /\ UNCHANGED <<globals, handlers, pending, i, c, locals, logs, store>>

RippleTriggeredCanonicalCoherence ==
    /\ Running("ripple_triggered_canonical_coherence")
    /\ \E b \in Behaviour(Len(calls) + 1, {<<>>}) :
        /\ calls' = Append(calls,
               Call("ripple_triggered_canonical_coherence",
                    [lfps |-> lfps, epoch_index |-> epoch_index,
                     tetrode_info |-> tetrode_info,
                     ripple_times |-> ripple_times,
                     multitaper_parameter_name |-> Entry.key,
                     multitaper_params |-> Entry.value], b))
        /\ pc' = After(b.ok, "save_multitaper_parameters")
        /\ Propagate(b, "ripple_triggered_canonical_coherence", "Error")
    /\ UNCHANGED <<globals, handlers, pending, i, c, locals, logs, store>>

SaveMultitaperParameters ==
    /\ Running("save_multitaper_parameters")
    /\ \E b \in Behaviour(Len(calls) + 1, {<<>>}) :
        /\ calls' = Append(calls,
               Call("save_multitaper_parameters",
                    [epoch_index |-> epoch_index,
                     multitaper_parameter_name |-> Entry.key,
                     multitaper_params |-> Entry.value], b))
        /\ store' = IF b.ok
                    THEN Save(store, "multitaper_parameters", epoch_index,
                              Entry.key, Entry.value)
                    ELSE store
        /\ pc' = After(b.ok, FirstLoopFrom(i + 1).pc)
        /\ i' = IF b.ok THEN FirstLoopFrom(i + 1).i ELSE i
        /\ Propagate(b, "save_multitaper_parameters", "Error")
    /\ UNCHANGED <<globals, handlers, pending, c, locals, logs>>

\* decode_ripple_clusterless(...)[0]: the first element of the result.
\* The second element of the result is taken.
Subscript1(t) == t[2]

Subscript0(t) == t[1]

DecodeRippleClusterless ==
    /\ Running("decode_ripple_clusterless")
    /\ \E b \in Behaviour(Len(calls) + 1,
                    {<<Value("ripple_info", v), Value("decoder_output", v)>> :
                        v \in Ids}) :
        /\ calls' = Append(calls,
               Call("decode_ripple_clusterless",
                    [epoch_index |-> epoch_index, animals |-> animals,
                     ripple_times |-> ripple_times], b))
        /\ ripple_info' = IF b.ok THEN Subscript0(b.ret) ELSE ripple_info
        /\ pc' = After(b.ok, "save_ripple_info")
        /\ Propagate(b, "decode_ripple_clusterless", "Error")
    /\ UNCHANGED <<globals, handlers, pending, i, c, ripple_times, lfps,
                   tetrode_info, logs, store>>

\* Where the nested loops (covariate outer, catalog inner) go from
\* position (cc, j): into the body, or past both loops.
\* The outer loop leaves out the last covariate.
RECURSIVE SecondLoopFrom_SkipsLast(_, _)
SecondLoopFrom_SkipsLast(cc, j) ==
    IF cc >= Len(ripple_covariates)
    THEN [pc |-> "finished", c |-> 0, i |-> 0]
    ELSE IF j <= Len(items(catalog, hashseed))
    THEN [pc |-> "coherence_by_ripple_type", c |-> cc, i |-> j]
    ELSE SecondLoopFrom_SkipsLast(cc + 1, 1)

RECURSIVE SecondLoopFrom(_, _)
SecondLoopFrom(cc, j) ==
    IF cc > Len(ripple_covariates)
    THEN [pc |-> "finished", c |-> 0, i |-> 0]
    ELSE IF j <= Len(items(catalog, hashseed))
    THEN [pc |-> "coherence_by_ripple_type", c |-> cc, i |-> j]
    ELSE SecondLoopFrom(cc + 1, 1)

SaveRippleInfo ==
    /\ Running("save_ripple_info")
    /\ \E b \in Behaviour(Len(calls) + 1, {<<>>}) :
        /\ calls' = Append(calls,
               Call("save_ripple_info",
                    [epoch_index |-> epoch_index,
                     ripple_info |-> ripple_info], b))
        /\ store' = IF b.ok
                    THEN Save(store, "ripple_info", epoch_index, "",
                              ripple_info)
                    ELSE store
        /\ pc' = After(b.ok, SecondLoopFrom(1, 1).pc)
        /\ c' = IF b.ok THEN SecondLoopFrom(1, 1).c ELSE c
        /\ i' = IF b.ok THEN SecondLoopFrom(1, 1).i ELSE i
        /\ Propagate(b, "save_ripple_info", "Error")
    /\ UNCHANGED <<globals, handlers, pending, locals, logs>>

CoherenceByRippleType ==
    /\ Running("coherence_by_ripple_type")
    /\ \E b \in Behaviour(Len(calls) + 1, {<<>>}) :
        /\ calls' = Append(calls,
               Call("coherence_by_ripple_type",
                    [lfps |-> lfps, ripple_info |-> ripple_info,
                     covariate |-> ripple_covariates[c],
                     multitaper_parameter_name |-> Entry.key,
                     multitaper_params |-> Entry.value], b))
        /\ pc' = After(b.ok, "canonical_coherence_by_ripple_type")
        /\ Propagate(b, "coherence_by_ripple_type", "Error")
    /\ UNCHANGED <<globals, handlers, pending, i, c, locals, logs, store>>

CanonicalCoherenceByRippleType ==
    /\ Running("canonical_coherence_by_ripple_type")
    /\ \E b \in Behaviour(Len(calls) + 1, {<<>>}) :
        /\ calls' = Append(calls,
               Call("canonical_coherence_by_ripple_type",
                    [lfps |-> lfps, epoch_index |-> epoch_index,
                     tetrode_info |-> tetrode_info,
                     ripple_info |-> ripple_info,
                     covariate |-> ripple_covariates[c],
                     multitaper_parameter_name |-> Entry.key,
                     multitaper_params |-> Entry.value], b))
        /\ pc' = After(b.ok, SecondLoopFrom(c, i + 1).pc)
        /\ c' = IF b.ok THEN SecondLoopFrom(c, i + 1).c ELSE c
        /\ i' = IF b.ok THEN SecondLoopFrom(c, i + 1).i ELSE i
        /\ Propagate(b, "canonical_coherence_by_ripple_type", "Error")
    /\ UNCHANGED <<globals, handlers, pending, locals, logs, store>>

(***************************************************************************)
(* main, after estimate_ripple_coherence has returned: the completion      *)
(* line, then exit(main()) with main's None, which is status 0.            *)
(***************************************************************************)
Finished ==
    /\ Running("finished")
    /\ logs' = Append(logs, [level |-> "INFO", msg |-> "Finished Processing"])
    /\ pc' = "done"
    /\ status' = 0
    /\ UNCHANGED <<globals, handlers, pending, i, c, locals, calls, store,
                   error>>

(***************************************************************************)
(* Signals.  SIGUSR1 and SIGUSR2 terminate the process by default; once    *)
(* main has installed _signal_handler, a delivered signal is noted and     *)
(* the handler runs in the main thread before its next step.  The         *)
(* repeated invocation is observed undisturbed: signals go to the first    *)
(* process only.                                                           *)
(***************************************************************************)
DeliverSignal(sig) ==
    /\ run = 1
    /\ pc \notin Terminal
    /\ pending = "none"
    /\ IF handlers
       THEN pending' = sig /\ pc' = pc
       ELSE pending' = pending /\ pc' = "killed"
    /\ UNCHANGED <<globals, handlers, i, c, locals, calls, logs, store,
                   error, status>>

\* A handler that logs the signal and returns.
SignalHandler_NoExit ==
    /\ pc \notin Terminal
    /\ pending # "none"
    /\ logs' = Append(logs, [level |-> "ERROR", msg |-> "Process killed",
                             signal |-> pending])
    /\ pending' = "none"
    /\ UNCHANGED <<globals, pc, handlers, i, c, locals, calls, store, error,
                   status>>

\* _signal_handler: log the signal, then exit(), whose SystemExit nothing
\* catches.
SignalHandler ==
    /\ pc \notin Terminal
    /\ pending # "none"
    /\ logs' = Append(logs, [level |-> "ERROR", msg |-> "Process killed",
                             signal |-> pending])
    /\ pending' = "none"
    /\ pc' = "exited"
    /\ status' = 0
    /\ UNCHANGED <<globals, handlers, i, c, locals, calls, store, error>>

(***************************************************************************)
(* A second invocation of the script with the same arguments, after the    *)
(* first one ran to its own end.  It is a new process: fresh locals,       *)
(* another hash seed, the persisted artifacts of the first still there.    *)
(***************************************************************************)
Rerun ==
    /\ run = 1
    /\ pc \in {"done", "failed"}
    /\ run' = 2
    /\ prev' = calls
    /\ hashseed' = hashseed + 1
    /\ pc' = "main"
    /\ handlers' = FALSE
    /\ pending' = "none"
    /\ i' = 0 /\ c' = 0
    /\ ripple_times' = None /\ lfps' = None
    /\ tetrode_info' = None /\ ripple_info' = None
    /\ calls' = <<>> /\ logs' = <<>>
    /\ error' = NoError /\ status' = -1
    /\ UNCHANGED <<epoch_index, catalog, store>>

Next ==
    \/ InstallSignalHandlers
    \/ Announce
    \/ DetectEpochRipples
    \/ GetEpochLfps
    \/ SaveTetrodePairInfo
    \/ RippleTriggeredCoherence
    \/ RippleTriggeredCanonicalCoherence
    \/ SaveMultitaperParameters
    \/ DecodeRippleClusterless
    \/ SaveRippleInfo
    \/ CoherenceByRippleType
    \/ CanonicalCoherenceByRippleType
    \/ Finished
    \/ \E sig \in SIGNALS : DeliverSignal(sig)
    \/ SignalHandler

Spec == Init /\ [][Next]_vars

NextTwoRuns == Next \/ Rerun

\* The repeated invocation is tried for one animal of the registry and for
\* one that is not in it.
InitTwoRuns == Init /\ epoch_index[1] \in {"HPa", "XYZ"}

SpecTwoRuns == InitTwoRuns /\ [][NextTwoRuns]_vars

\* The interpreter runs a pending handler before the main thread's next
\* bytecode.
FairSpec == Spec /\ WF_vars(SignalHandler)

(***************************************************************************)
(* Vocabulary of the properties                                            *)
(***************************************************************************)
Triggered == {"ripple_triggered_coherence",
              "ripple_triggered_canonical_coherence"}
Stratified == {"coherence_by_ripple_type",
               "canonical_coherence_by_ripple_type"}
Coherence == Triggered \cup Stratified
Persistence == {"save_tetrode_pair_info", "save_multitaper_parameters",
                "save_ripple_info"}

CatalogNames == {"gamma_frequency_medFreqRes1", "gamma_frequency_medFreqRes2",
                 "gamma_frequency_highTimeRes", "gamma_frequency_highFreqRes",
                 "low_frequencies_highTimeRes", "low_frequencies_medFreqRes",
                 "low_frequencies_highFreqRes", "ripple_frequencies"}
Covariates == {"session_time", "ripple_trajectory", "ripple_direction"}

Idx == 1..Len(calls)
CallsOf(fns) == {k \in Idx : calls[k].fn \in fns}
Count(fns) == Cardinality(CallsOf(fns))
Returned(fn) == \E k \in Idx : calls[k].fn = fn /\ calls[k].ok
Logged(msg) == \E k \in 1..Len(logs) : logs[k].msg = msg
Persisted(file, name, data) ==
    [file |-> file, epoch_index |-> epoch_index, name |-> name,
     data |-> data] \in store

\* estimate_ripple_coherence has returned
Succeeded == pc \in {"finished", "done"}
\* the process came to its own end, not to a signal's
EndedByItself == pc \in {"done", "failed"}

(***************************************************************************)
(* C1: a run in which no collaborator fails makes exactly 64 coherence     *)
(* calls: 16 ripple-triggered ones, one of each of the two variants per    *)
(* catalog name, and 48 stratified ones, one of each of the two variants   *)
(* per (covariate, catalog name) pair; no combination twice, none skipped. *)
(***************************************************************************)
C1_SixtyFourCoherenceCalls ==
    Succeeded =>
        /\ Count(Coherence) = 64
        /\ Count(Triggered) = 16
        /\ Count(Stratified) = 48
        /\ \A f \in Triggered, n \in CatalogNames :
              Cardinality({k \in CallsOf({f}) :
                  calls[k].args.multitaper_parameter_name = n}) = 1
        /\ \A f \in Stratified, v \in Covariates, n \in CatalogNames :
              Cardinality({k \in CallsOf({f}) :
                  /\ calls[k].args.covariate = v
                  /\ calls[k].args.multitaper_parameter_name = n}) = 1

C1_Witness == pc = "done" /\ Count(Coherence) = 64 /\ error = NoError

(***************************************************************************)
(* C2 as stated: in every run save_tetrode_pair_info is called exactly     *)
(* once.  A run that ends before the call (the detector or the loader      *)
(* raised) has called it zero times.                                       *)
(***************************************************************************)
C2_Original ==
    EndedByItself => Count({"save_tetrode_pair_info"}) = 1

(***************************************************************************)
(* C2 amended: save_tetrode_pair_info is called at most once in a run,     *)
(* and exactly once in every run that comes to its own end after           *)
(* get_epoch_lfps returned; the call is the one right after                *)
(* get_epoch_lfps returns and is given the tetrode_info it returned; and   *)
(* every coherence call is made in a state where that TetrodeInfo is       *)
(* persisted.                                                              *)
(***************************************************************************)
C2_TetrodeInfoPersistedFirst ==
    /\ Count({"save_tetrode_pair_info"}) <= 1
    /\ EndedByItself /\ Returned("get_epoch_lfps")
          => Count({"save_tetrode_pair_info"}) = 1
    /\ \A k \in CallsOf({"save_tetrode_pair_info"}) :
          /\ k > 1
          /\ calls[k - 1].fn = "get_epoch_lfps" /\ calls[k - 1].ok
          /\ calls[k].args.tetrode_info = calls[k - 1].ret[2]
          /\ calls[k].args.epoch_index = epoch_index
    /\ \A k \in CallsOf(Coherence) :
          /\ \E j \in 1..(k - 1) :
                calls[j].fn = "save_tetrode_pair_info" /\ calls[j].ok
          /\ Persisted("tetrode_pair_info", "", tetrode_info)
          /\ tetrode_info # None

C2_Witness ==
    /\ Count({"save_tetrode_pair_info"}) = 1
    /\ Count(Coherence) > 0
    /\ pc = "failed"

(***************************************************************************)
(* C3 as stated: in every run save_ripple_info is called exactly once.     *)
(* A run that ends before the classifier has returned has called it zero   *)
(* times.                                                                  *)
(***************************************************************************)
C3_Original ==
    EndedByItself => Count({"save_ripple_info"}) = 1

(***************************************************************************)
(* C3 amended: save_ripple_info is called at most once in a run, and       *)
(* exactly once in every run that comes to its own end after               *)
(* decode_ripple_clusterless returned; the call is the one right after     *)
(* the classifier returns and is given the first element of its result;    *)
(* every stratified coherence call comes after it and receives that same   *)
(* value.                                                                  *)
(***************************************************************************)
C3_RippleInfoPersistedOnce ==
    /\ Count({"save_ripple_info"}) <= 1
    /\ EndedByItself /\ Returned("decode_ripple_clusterless")
          => Count({"save_ripple_info"}) = 1
    /\ \A k \in CallsOf({"save_ripple_info"}) :
          /\ k > 1
          /\ calls[k - 1].fn = "decode_ripple_clusterless" /\ calls[k - 1].ok
          /\ calls[k].args.ripple_info = calls[k - 1].ret[1]
          /\ calls[k].args.ripple_info.kind = "ripple_info"
          /\ calls[k].args.epoch_index = epoch_index
    /\ \A k \in CallsOf(Stratified) :
          \E j \in 1..(k - 1) :
              /\ calls[j].fn = "save_ripple_info" /\ calls[j].ok
              /\ calls[k].args.ripple_info = calls[j].args.ripple_info
              /\ Persisted("ripple_info", "", calls[k].args.ripple_info)

C3_Witness ==
    /\ Count({"save_ripple_info"}) = 1
    /\ Count(Stratified) = 48
    /\ pc = "done"

(***************************************************************************)
(* C4: the detector is the first collaborator called; no ripple-triggered  *)
(* call comes after the classifier call and no stratified call before it;  *)
(* a successful run makes its 16 ripple-triggered calls, then exactly one  *)
(* classifier call, then its 48 stratified calls.                          *)
(***************************************************************************)
C4_ThreePhases ==
    /\ calls # <<>> => calls[1].fn = "detect_epoch_ripples"
    /\ Count({"detect_epoch_ripples"}) <= 1
    /\ Count({"decode_ripple_clusterless"}) <= 1
    /\ \A d \in CallsOf({"decode_ripple_clusterless"}) :
          /\ \A k \in CallsOf(Triggered) : k < d
          /\ \A k \in CallsOf(Stratified) : k > d
    /\ CallsOf(Stratified) # {} => CallsOf({"decode_ripple_clusterless"}) # {}
    /\ Succeeded =>
          \E d \in Idx :
              /\ CallsOf({"decode_ripple_clusterless"}) = {d}
              /\ Cardinality({k \in CallsOf(Triggered) : k < d}) = 16
              /\ Cardinality({k \in CallsOf(Stratified) : k > d}) = 48

C4_Witness ==
    /\ pc = "finished"
    /\ Count(Triggered) = 16 /\ Count(Stratified) = 48
    /\ Count({"decode_ripple_clusterless"}) = 1

(***************************************************************************)
(* C5: a collaborator call that raises is the last call of the run: the    *)
(* process ends there with that error and exit status 1, nothing is        *)
(* called after it, no call is made twice with the same arguments, and     *)
(* what the persistence calls before it stored is still stored.  When      *)
(* detect_epoch_ripples raises, it is the only call made and nothing is    *)
(* stored.                                                                 *)
(***************************************************************************)
C5_AbortOnFirstFailure ==
    /\ \A k \in Idx :
          ~calls[k].ok =>
              /\ k = Len(calls)
              /\ pc = "failed"
              /\ error.raised_by = calls[k].fn
              /\ status = 1
              /\ ~Logged("Finished Processing")
    /\ pc = "failed" => calls # <<>> /\ ~calls[Len(calls)].ok
    /\ \A j, k \in Idx :
          j < k /\ calls[j].fn = calls[k].fn => calls[j].args # calls[k].args
    /\ \A k \in Idx :
          calls[k].ok =>
              /\ calls[k].fn = "save_tetrode_pair_info" =>
                    Persisted("tetrode_pair_info", "",
                              calls[k].args.tetrode_info)
              /\ calls[k].fn = "save_multitaper_parameters" =>
                    Persisted("multitaper_parameters",
                              calls[k].args.multitaper_parameter_name,
                              calls[k].args.multitaper_params)
              /\ calls[k].fn = "save_ripple_info" =>
                    Persisted("ripple_info", "", calls[k].args.ripple_info)
    /\ (calls # <<>> /\ ~calls[1].ok) => Len(calls) = 1 /\ store = {}

C5_Witness ==
    /\ pc = "failed"
    /\ calls[Len(calls)].fn = "canonical_coherence_by_ripple_type"
    /\ Cardinality(store) = 10

(***************************************************************************)
(* C6 as stated: for an animal short name that is not in the registry      *)
(* no collaborator is ever invoked, and for one that is in it the          *)
(* detector is the call the run proceeds to.                               *)
(***************************************************************************)
C6_UnknownAnimalNoCall ==
    /\ epoch_index[1] \notin DOMAIN animals => calls = <<>>
    /\ epoch_index[1] \in DOMAIN animals /\ calls # <<>> =>
          /\ calls[1].fn = "detect_epoch_ripples"
          /\ error.kind # "UnknownAnimalError"

(***************************************************************************)
(* C7: in every state the catalog has exactly 8 entries with pairwise      *)
(* distinct names, and every entry has window_of_interest[0] <             *)
(* window_of_interest[1], desired_frequencies[0] < desired_frequencies[1], *)
(* time_halfbandwidth_product >= 1 and sampling_frequency = 1500.          *)
(***************************************************************************)
C7_CatalogWellFormed ==
    /\ Len(catalog) = 8
    /\ Cardinality(Keys(catalog)) = 8
    /\ Keys(catalog) = CatalogNames
    /\ \A j \in 1..Len(catalog) :
          LET p == catalog[j].value
          IN  /\ p.window_of_interest[1] < p.window_of_interest[2]
              /\ p.desired_frequencies[1] < p.desired_frequencies[2]
              /\ p.time_halfbandwidth_product >= 1
              /\ p.sampling_frequency = 1500

C7_Witness == pc = "done" /\ Count(Coherence) = 64 /\ Len(catalog) = 8

(***************************************************************************)
(* C8 as stated: in every state in which a run stops by itself, each       *)
(* parameter name for which a ripple-triggered coherence call has          *)
(* completed has had save_multitaper_parameters called with the same       *)
(* parameters; and a successful run calls save_multitaper_parameters       *)
(* exactly once per catalog name.                                          *)
(***************************************************************************)
C8_ParametersTraceable ==
    /\ EndedByItself =>
          \A k \in CallsOf(Triggered) :
              calls[k].ok =>
                  \E j \in CallsOf({"save_multitaper_parameters"}) :
                      /\ calls[j].args.epoch_index = epoch_index
                      /\ calls[j].args.multitaper_parameter_name
                            = calls[k].args.multitaper_parameter_name
                      /\ calls[j].args.multitaper_params
                            = calls[k].args.multitaper_params
    /\ Succeeded =>
          /\ Count({"save_multitaper_parameters"}) = 8
          /\ \A n \in CatalogNames :
                Cardinality({j \in CallsOf({"save_multitaper_parameters"}) :
                    calls[j].args.multitaper_parameter_name = n}) = 1

(***************************************************************************)
(* C9: a second run with the same epoch_index and the same collaborator    *)
(* behaviour makes the calls of the first run, persistence and coherence   *)
(* calls alike, with the same arguments in the same order; the stratified  *)
(* calls of a successful run go through the covariates in list order       *)
(* (outer loop) and, for each, through the catalog in catalog order        *)
(* (inner loop), pairwise variant first.                                   *)
(***************************************************************************)
C9_SameCallsOnRerun ==
    /\ run = 2 =>
          /\ Len(calls) <= Len(prev)
          /\ calls = SubSeq(prev, 1, Len(calls))
    /\ run = 2 /\ EndedByItself => calls = prev
    /\ Succeeded =>
          LET S == CallsOf(Stratified)
              first == CHOOSE k \in S : \A m \in S : k <= m
          IN  \A n \in 0..47 :
                /\ calls[first + n].fn =
                      IF n % 2 = 0 THEN "coherence_by_ripple_type"
                      ELSE "canonical_coherence_by_ripple_type"
                /\ calls[first + n].args.covariate
                      = ripple_covariates[(n \div 16) + 1]
                /\ calls[first + n].args.multitaper_parameter_name
                      = multitaper_parameters[((n % 16) \div 2) + 1].key
                /\ calls[first + n].args.multitaper_params
                      = multitaper_parameters[((n % 16) \div 2) + 1].value

C9_Witness ==
    /\ run = 2 /\ pc = "done"
    /\ Len(prev) = 77 /\ Len(calls) = 77
    /\ Cardinality(store) = 10

(***************************************************************************)
(* C10: the handlers are installed before the first collaborator call; a   *)
(* signal delivered from then on is handled before the main thread makes   *)
(* another step: the handler logs the signal and the process ends, with    *)
(* no further collaborator call, no 'Finished Processing' line and the     *)
(* stored artifacts left as they are; and 'Finished Processing' is logged  *)
(* only after all 64 coherence calls and all 10 persistence calls have     *)
(* completed.                                                              *)
(***************************************************************************)
SignalLine(sig) == [level |-> "ERROR", msg |-> "Process killed", signal |-> sig]

C10_State ==
    /\ calls # <<>> => handlers
    /\ pending # "none" => handlers
    /\ pc = "exited" =>
          /\ logs # <<>> /\ logs[Len(logs)].msg = "Process killed"
          /\ ~Logged("Finished Processing")
          /\ status = 0
    /\ Logged("Finished Processing") =>
          /\ Cardinality({k \in CallsOf(Coherence) : calls[k].ok}) = 64
          /\ Cardinality({k \in CallsOf(Persistence) : calls[k].ok}) = 10
          /\ Cardinality(store) = 10

C10_Step ==
    /\ pc # "exited"
    /\ pending # "none" =>
          /\ pc' = "exited"
          /\ logs' = Append(logs, SignalLine(pending))
          /\ calls' = calls
          /\ store' = store

C10_SignalTerminates ==
    /\ []C10_State
    /\ [][C10_Step]_vars
    /\ \A sig \in SIGNALS :
          (pending = sig) ~> (pc = "exited" /\ logs[Len(logs)] = SignalLine(sig))

C10_Witness ==
    /\ pc = "exited"
    /\ Count(Coherence) > 16
    /\ Cardinality(store) = 10

====
